---- MODULE Spec2Model ----
(***************************************************************************)
(* Koopman learning and control: the successive-linearization MPC          *)
(* controller (NonlinearMPCController), the bilinear EDMD fitter           *)
(* (BilinearEdmd) and the feedback-linearizing MPC (BilinearMpcController).*)
(* Reals are modelled by integers; a norm comparison  norm(v) > eps  is    *)
(* modelled by  SumSq(v) > eps * eps  (eps >= 0).  Matrices are sequences  *)
(* of rows, trajectories are sequences of stage vectors, and flat index    *)
(* arrays keep numpy's 0-based values.                                     *)
(***************************************************************************)
EXTENDS Integers, Sequences, FiniteSets, TLC

VARIABLES
    \* ---- NonlinearMPCController: constructor arguments
    N, C, xmin, xmax, umin, umax, xr, terminal_constraint,
    \* ---- NonlinearMPCController: QP data and solver handle
    osqp_q, osqp_l, osqp_u, osqp_A, osqp_A_data,
    osqp_A_data_A_inds, osqp_A_data_B_inds, prob, res,
    \* ---- solve_to_convergence: arguments, locals and trajectory guess
    pc, z, eps, max_iter, iter, cur_z, cur_u, u_prev,
    z_init, u_init, A_lst, B_lst, r_lst,
    \* ---- solve_to_convergence: position inside one pass of the loop body
    body_pc,
    \* ---- BilinearEdmd: constructor arguments
    n, m, n_lift, cv, standardizer,
    \* ---- BilinearEdmd: the fitted model and its reduction
    A, B, edmd_C, basis_reduced, n_lift_reduced, obs_in_use, edmd_raised,
    \* ---- BilinearEdmd.lift: n_traj, the arguments and the result of a call
    n_traj, lift_x, lift_u, z_bilinear,
    \* ---- BilinearEdmd.process: the steps the last call went through
    process_steps,
    \* ---- BilinearMpcController: set point, auxiliary problem, its
    \* parameters, u_prev
    set_pt, mpc_prob, mpc_status, mpc_nu, eta_z_init, eta_z_d, zd, zd_dot, zd_ddot,
    mpc_u_prev,
    \* ---- BilinearMpcController.eval: position in the call, argument, locals,
    \* returned value
    eval_pc, eval_x, eval_z, eval_u, eval_ret

ctrlConfig == <<N, C, xmin, xmax, umin, umax, xr, terminal_constraint>>
ctrlQp == <<osqp_q, osqp_l, osqp_u, osqp_A, osqp_A_data,
            osqp_A_data_A_inds, osqp_A_data_B_inds, prob, res>>
ctrlLoop == <<pc, z, eps, max_iter, iter, cur_z, cur_u, u_prev, body_pc>>
ctrlLocals == <<z_init, u_init, A_lst, B_lst, r_lst>>
ctrlVars == <<ctrlConfig, ctrlQp, ctrlLoop, ctrlLocals>>

edmdConfig == <<n, m, n_lift, cv, standardizer>>
edmdModel == <<A, B, edmd_C, basis_reduced, n_lift_reduced, obs_in_use, edmd_raised>>
liftVars == <<n_traj, lift_x, lift_u, z_bilinear, process_steps>>
edmdVars == <<edmdConfig, edmdModel, liftVars>>

mpcParams == <<eta_z_init, eta_z_d, zd, zd_dot, zd_ddot>>
mpcVars == <<set_pt, mpc_prob, mpc_status, mpc_nu, mpcParams, mpc_u_prev>>
evalFrame == <<eval_pc, eval_x, eval_z, eval_u, eval_ret>>
evalVars == <<mpcVars, evalFrame>>

vars == <<ctrlVars, edmdVars, evalVars>>

-----------------------------------------------------------------------------
(* numpy helpers *)

RECURSIVE SumSeq(_)
SumSeq(s) == IF s = <<>> THEN 0 ELSE Head(s) + SumSeq(Tail(s))

RECURSIVE Flatten(_)
Flatten(ss) == IF ss = <<>> THEN <<>> ELSE Head(ss) \o Flatten(Tail(ss))

Zeros(k) == [i \in 1..k |-> 0]
Ones(k) == [i \in 1..k |-> 1]
ZerosMat(r, c) == [i \in 1..r |-> Zeros(c)]
OnesMat(r, c) == [i \in 1..r |-> Ones(c)]
Eye(k) == [i \in 1..k |-> [j \in 1..k |-> IF i = j THEN 1 ELSE 0]]

VAdd(a, b) == [i \in 1..Len(a) |-> a[i] + b[i]]
VSub(a, b) == [i \in 1..Len(a) |-> a[i] - b[i]]
VNeg(a) == [i \in 1..Len(a) |-> 0 - a[i]]
VScale(k, a) == [i \in 1..Len(a) |-> k * a[i]]
Dot(a, b) == SumSeq([i \in 1..Len(a) |-> a[i] * b[i]])
MatVec(M, v) == [i \in 1..Len(M) |-> Dot(M[i], v)]
Col(M, j) == [i \in 1..Len(M) |-> M[i][j]]
Transpose(M, ncols) == [j \in 1..ncols |-> Col(M, j)]
MAdd(M1, M2) == [i \in 1..Len(M1) |-> VAdd(M1[i], M2[i])]
Tile(v, k) == Flatten([i \in 1..k |-> v])
SumSq(v) == Dot(v, v)
\* elementwise a + b and a - b of two trajectories (sequences of vectors)
TAdd(a, b) == [t \in 1..Len(a) |-> VAdd(a[t], b[t])]
TSub(a, b) == [t \in 1..Len(a) |-> VSub(a[t], b[t])]

-----------------------------------------------------------------------------
(* NonlinearMPCController: dimensions and cost matrices *)

nx == Len(C[1])
ns == Len(xr)
nu == Len(umin)
Q == Eye(ns)
QN == Eye(ns)
R == Eye(nu)

\* the linear objective  q  around the guess (z_init, u_init)
update_objective_(zi, ui) ==
    LET CT == Transpose(C, nx)
        stage(t) == MatVec(CT, MatVec(Q, VSub(MatVec(C, zi[t]), xr)))
    IN  Flatten([t \in 1..N |-> stage(t)])
        \o MatVec(CT, MatVec(QN, VSub(MatVec(C, zi[N + 1]), xr)))
        \o Flatten([t \in 1..N |-> MatVec(R, ui[t])])

construct_objective_(zi, ui) == update_objective_(zi, ui)

\* the state-bound block before the terminal override
StateBounds(bound, zi) ==
    VSub(Tile(bound, N + 1), Flatten([t \in 1..(N + 1) |-> MatVec(C, zi[t])]))

\* v[-Len(tail):] = tail
OverrideTail(v, tail) ==
    [i \in 1..Len(v) |->
        IF i > Len(v) - Len(tail) THEN tail[i - (Len(v) - Len(tail))] ELSE v[i]]

\* the last k entries of v
LastK(v, k) == SubSeq(v, Len(v) - k + 1, Len(v))

\* lineq_x, with  lineq_x[-ns:] = xr - C @ z_init[-1, :]  under a terminal
\* constraint
lineq_x(zi) ==
    IF terminal_constraint
    THEN OverrideTail(StateBounds(xmin, zi), VSub(xr, MatVec(C, zi[N + 1])))
    ELSE StateBounds(xmin, zi)

\* variant of uineq_x that never overrides the terminal block
uineq_x_box(zi) == StateBounds(xmax, zi)

\* uineq_x, with  uineq_x[-ns:] = lineq_x[-ns:]  under a terminal constraint
uineq_x(zi) ==
    IF terminal_constraint
    THEN OverrideTail(StateBounds(xmax, zi), LastK(lineq_x(zi), ns))
    ELSE StateBounds(xmax, zi)

\* variant of EqStage0 with the sign of the spec's wording: +dz0
EqStage0Pos(zz, zi) == VSub(zz, zi[1])

\* the stage-0 block of the equality right-hand side: -dz0
EqStage0(zz, zi) == VNeg(VSub(zz, zi[1]))

\* leq = np.hstack([-dz0, -r_vec]);  ueq = leq
leq(zz, zi, rl) == EqStage0(zz, zi) \o VNeg(Flatten(rl))

lineq_u(ui) == VSub(Tile(umin, N), Flatten(ui))
uineq_u(ui) == VSub(Tile(umax, N), Flatten(ui))

\* the bound vectors  [l |-> _osqp_l, u |-> _osqp_u]
construct_constraint_vecs_(zz, zi, ui, rl) ==
    [l |-> leq(zz, zi, rl) \o lineq_u(ui) \o lineq_x(zi),
     u |-> leq(zz, zi, rl) \o uineq_u(ui) \o uineq_x(zi)]

-----------------------------------------------------------------------------
(* NonlinearMPCController: the constraint matrix and its CSC data array *)

nRows == (N + 1) * nx + N * nu + (N + 1) * ns
nCols == (N + 1) * nx + N * nu

\* Entry (r, c), 0-based, of  vstack([Aeq, Aineq_u, Aineq_x])
ConstraintEntry(Al, Bl, r, c) ==
    LET nz == (N + 1) * nx
    IN  IF r < nz
        THEN IF c < nz
             THEN \* Ax = -eye + A_dyn
                  (IF r = c THEN 0 - 1 ELSE 0)
                  + (IF r >= nx /\ c < N * nx /\ (r - nx) \div nx = c \div nx
                     THEN Al[(c \div nx) + 1][((r - nx) % nx) + 1][(c % nx) + 1]
                     ELSE 0)
             ELSE \* Bu
                  LET cu == c - nz
                  IN  IF r >= nx /\ (r - nx) \div nx = cu \div nu
                      THEN Bl[(cu \div nu) + 1][((r - nx) % nx) + 1][(cu % nu) + 1]
                      ELSE 0
        ELSE IF r < nz + N * nu
        THEN \* Aineq_u = [0, eye]
             IF c >= nz /\ c - nz = r - nz THEN 1 ELSE 0
        ELSE \* Aineq_x = [kron(eye(N+1), C), 0]
             LET rx == r - nz - N * nu
             IN  IF c < nz /\ rx \div ns = c \div nx
                 THEN C[(rx % ns) + 1][(c % nx) + 1]
                 ELSE 0

\* the matrix  _osqp_A  as a dense array; scipy stores its nonzero entries
construct_constraint_matrix_(Al, Bl) ==
    [i \in 1..nRows |-> [j \in 1..nCols |-> ConstraintEntry(Al, Bl, i - 1, j - 1)]]

\* the positions a csc_matrix built from M stores, in the order of its data
\* array: column by column, rows ascending
CscPositions(M) ==
    LET nr == Len(M)
        nc == Len(M[1])
        all == [k \in 1..(nr * nc) |-> <<((k - 1) % nr) + 1, ((k - 1) \div nr) + 1>>]
    IN  SelectSeq(all, LAMBDA p : M[p[1]][p[2]] # 0)

\* the data array of the matrix with the sparsity pattern of  pat  and the
\* values of  M
Gather(pos, M) == [k \in 1..Len(pos) |-> M[pos[k][1]][pos[k][2]]]
CscData(pat, M) == Gather(CscPositions(pat), M)

\* C_data[i]: the nonzero entries of column i (0-based) of C
C_data(i) == SelectSeq(Col(C, i + 1), LAMBDA v : v # 0)

\* np.nonzero(self.C)[0].size
NnzC == SumSeq([i \in 1..nx |-> Len(C_data(i - 1))])

\* variant of start_ind_A that skips no output-selection entries
RECURSIVE start_ind_A_dense(_)
start_ind_A_dense(k) ==
    IF k = 0 THEN 1 ELSE start_ind_A_dense(k - 1) + nx + 1

\* start_ind_A before the k-th (0-based) state column of stages 0..N-1
RECURSIVE start_ind_A(_)
start_ind_A(k) ==
    IF k = 0 THEN 1
    ELSE start_ind_A(k - 1) + nx + 1 + Len(C_data((k - 1) % nx))

\* start_ind_B before the k-th (0-based) input column
start_ind_B(k) == start_ind_A(N * nx) + nx + NnzC - 1 + k * (nx + 1)

A_inds == Flatten([k \in 1..(N * nx) |->
                      [j \in 1..nx |-> start_ind_A(k - 1) + j - 1]])

B_inds == Flatten([k \in 1..(N * nu) |->
                      [j \in 1..nx |-> start_ind_B(k - 1) + j - 1]])

\* the manually built data array
construct_constraint_matrix_data_(Al, Bl) ==
    LET stateCols == [k \in 1..(N * nx) |->
                         <<0 - 1>>
                         \o Col(Al[((k - 1) \div nx) + 1], ((k - 1) % nx) + 1)
                         \o C_data((k - 1) % nx)]
        lastCols == [i \in 1..nx |-> <<0 - 1>> \o C_data(i - 1)]
        inputCols == [k \in 1..(N * nu) |->
                         Col(Bl[((k - 1) \div nu) + 1], ((k - 1) % nu) + 1)
                         \o <<1>>]
    IN  Flatten(stateCols) \o Flatten(lastCols) \o Flatten(inputCols)

\* np.hstack(lst).flatten(order='F'): the columns of each block in turn
HstackFlattenF(lst, ncols) ==
    Flatten([k \in 1..(Len(lst) * ncols) |->
                Col(lst[((k - 1) \div ncols) + 1], ((k - 1) % ncols) + 1)])

\* data[inds] = vals  (inds 0-based), one assignment after the other
RECURSIVE Scatter(_, _, _, _)
Scatter(data, inds, vals, k) ==
    IF k > Len(inds) THEN data
    ELSE Scatter(IF inds[k] + 1 \in 1..Len(data)
                 THEN [data EXCEPT ![inds[k] + 1] = vals[k]]
                 ELSE data,
                 inds, vals, k + 1)

update_constraint_matrix_data_(data, Ainds, Binds, Al, Bl) ==
    Scatter(Scatter(data, Ainds, HstackFlattenF(Al, nx), 1),
            Binds, HstackFlattenF(Bl, nu), 1)

-----------------------------------------------------------------------------
(* Collaborators of the controller: the dynamics object and the QP solver *)

\* a bilinear lifted model  z+ = F z + sum_k u_k G_k z  of dimension nx, nu
Fdyn == [i \in 1..nx |-> [j \in 1..nx |-> IF j = i \/ j = i + 1 THEN 1 ELSE 0]]
Gdyn(k) == [i \in 1..nx |-> [j \in 1..nx |->
               IF i = nx /\ j = ((k - 1) % nx) + 1 THEN 1 ELSE 0]]

RECURSIVE SumMats(_, _)
SumMats(k, u) ==
    IF k = 0 THEN ZerosMat(nx, nx)
    ELSE MAdd(SumMats(k - 1, u), [i \in 1..nx |-> VScale(u[k], Gdyn(k)[i])])

\* dynamics_object.get_linearization(z, z_next, u, None) -> (A, B, r)
Alin(ut) == MAdd(Fdyn, SumMats(nu, ut))
Blin(zt) == [i \in 1..nx |-> [k \in 1..nu |-> MatVec(Gdyn(k), zt)[i]]]
rlin(zt, znext, ut) == VSub(MatVec(Alin(ut), zt), znext)
get_linearization(zt, znext, ut) ==
    [A |-> Alin(ut), B |-> Blin(zt), r |-> rlin(zt, znext, ut)]

\* what prob.solve() may return: a status and a flat solution vector
StepVals == {0, 1, 2}
SolverStatus == {"solved", "primal infeasible"}
SolverX == {[i \in 1..nCols |-> b] : b \in StepVals}

NoRes == [status |-> "none", x |-> <<>>]
NoProb == [setup |-> 0, last |-> "none"]

\* dz.T and du.T of solve_mpc_: the rows are the stages
StepZ(x) == [t \in 1..(N + 1) |-> [i \in 1..nx |-> x[(t - 1) * nx + i]]]
StepU(x) == [t \in 1..N |-> [k \in 1..nu |-> x[(N + 1) * nx + (t - 1) * nu + k]]]

-----------------------------------------------------------------------------
(* NonlinearMPCController: construct_controller and solve_to_convergence *)

MaxIter == 3
SeedVals == {0, 1}
StateSeeds == {1}
LoopN == 2
EpsVals == {0, 2}

\* the arguments the model calls the controller with
StateOf(a) == [i \in 1..nx |-> a * i]
GuessZ(g) == [t \in 1..(N + 1) |-> [i \in 1..nx |-> g * (10 * t + i)]]
GuessU(g) == [t \in 1..N |-> [k \in 1..nu |-> g * (10 * t + k)]]

\* bounds and reference of a controller with output map Cm and nuv inputs
ControllerArgs(Cm, nuv) ==
    /\ C = Cm
    /\ xr = [i \in 1..Len(Cm) |-> i]
    /\ xmin = [i \in 1..Len(Cm) |-> 0 - 90 - i]
    /\ xmax = [i \in 1..Len(Cm) |-> 90 + i]
    /\ umin = [k \in 1..nuv |-> 0 - 40 - k]
    /\ umax = [k \in 1..nuv |-> 40 + k]

NotConstructed ==
    /\ osqp_q = <<>> /\ osqp_l = <<>> /\ osqp_u = <<>>
    /\ osqp_A = <<>> /\ osqp_A_data = <<>>
    /\ osqp_A_data_A_inds = <<>> /\ osqp_A_data_B_inds = <<>>
    /\ prob = NoProb /\ res = NoRes

NotCalled ==
    /\ pc = "idle" /\ z = <<>> /\ eps = 0 /\ max_iter = 0 /\ iter = 0
    /\ body_pc = "top"
    /\ cur_z = <<>> /\ cur_u = <<>> /\ u_prev = <<>>
    /\ z_init = <<>> /\ u_init = <<>>
    /\ A_lst = <<>> /\ B_lst = <<>> /\ r_lst = <<>>

\* no BilinearEdmd instance
NoEdmd ==
    /\ n = 0 /\ m = 0 /\ n_lift = 0 /\ cv = "None" /\ standardizer = "None"
    /\ A = <<>> /\ B = <<>> /\ edmd_C = <<>>
    /\ basis_reduced = <<>> /\ n_lift_reduced = 0 - 1 /\ obs_in_use = <<>>
    /\ edmd_raised = "none"
    /\ n_traj = 0 /\ lift_x = <<>> /\ lift_u = <<>> /\ z_bilinear = <<>>
    /\ process_steps = <<>>

\* no BilinearMpcController instance
NoBilinearMpc ==
    /\ set_pt = <<>> /\ mpc_prob = "None" /\ mpc_status = "None" /\ mpc_nu = <<>>
    /\ eta_z_init = <<>> /\ eta_z_d = <<>> /\ zd = <<>> /\ zd_dot = <<>> /\ zd_ddot = <<>>
    /\ mpc_u_prev = <<>>
    /\ eval_pc = "idle" /\ eval_x = <<>> /\ eval_z = <<>> /\ eval_u = <<>>
    /\ eval_ret = <<>>

Init ==
    /\ N = LoopN
    /\ ControllerArgs(<<<<1, 0>>>>, 1)
    /\ terminal_constraint \in BOOLEAN
    /\ NotConstructed
    /\ NotCalled
    /\ NoEdmd
    /\ NoBilinearMpc

construct_controller(g) ==
    /\ pc # "loop"
    /\ \E vecs \in {construct_constraint_vecs_(GuessZ(g)[1], GuessZ(g), GuessU(g),
                                               [t \in 1..N |-> Ones(nx)])} :
          /\ osqp_l' = vecs.l
          /\ osqp_u' = vecs.u
    /\ osqp_q' = construct_objective_(GuessZ(g), GuessU(g))
    /\ osqp_A' = construct_constraint_matrix_([t \in 1..N |-> OnesMat(nx, nx)],
                                              [t \in 1..N |-> OnesMat(nx, nu)])
    /\ osqp_A_data' =
          construct_constraint_matrix_data_([t \in 1..N |-> OnesMat(nx, nx)],
                                            [t \in 1..N |-> OnesMat(nx, nu)])
    /\ osqp_A_data_A_inds' = A_inds
    /\ osqp_A_data_B_inds' = B_inds
    \* prob = osqp.OSQP(); prob.setup(P, q, A, l, u, ...)
    /\ prob' = [setup |-> 1, last |-> "setup",
                q |-> osqp_q', l |-> osqp_l', u |-> osqp_u',
                Ax |-> CscData(osqp_A', osqp_A')]
    /\ UNCHANGED <<edmdVars, evalVars, ctrlConfig, ctrlLoop, ctrlLocals, res>>

\* entry of solve_to_convergence, up to the first test of the loop condition
solve_to_convergence(a, g, e, mi) ==
    /\ pc # "loop"
    /\ pc' = "loop"
    /\ z' = StateOf(a)
    /\ eps' = e
    /\ max_iter' = mi
    /\ iter' = 0
    /\ cur_z' = GuessZ(g)
    /\ cur_u' = GuessU(g)
    /\ u_prev' = [t \in 1..N |-> Zeros(nu)]
    /\ UNCHANGED <<edmdVars, evalVars, ctrlConfig, ctrlQp, ctrlLocals, body_pc>>

\* np.linalg.norm(u_prev - self.cur_u) > eps
ChangeAbove(up, cu, e) == SumSq(Flatten(TSub(up, cu))) > e * e

\* variant of the while condition that ignores the change of the guess
LoopConditionCapOnly == iter < max_iter

\* the while condition
LoopCondition ==
    (iter = 0 \/ ChangeAbove(u_prev, cur_u, eps)) /\ iter < max_iter

\* what solve_mpc_'s step does to the guess
ApplyStep(guess, step, status) == TAdd(guess, step)

\* lines 94-96: one linearization per stage of the guess
Linearize(zi, ui) ==
    /\ A_lst' = [t \in 1..N |-> get_linearization(zi[t], zi[t + 1], ui[t]).A]
    /\ B_lst' = [t \in 1..N |-> get_linearization(zi[t], zi[t + 1], ui[t]).B]
    /\ r_lst' = [t \in 1..N |-> get_linearization(zi[t], zi[t + 1], ui[t]).r]

\* lines 99-100: the objective and the bound vectors around the guess
RefreshVectors ==
    /\ osqp_q' = update_objective_(z_init', u_init')
    /\ \E vecs \in {construct_constraint_vecs_(z, z_init', u_init', r_lst')} :
          /\ osqp_l' = vecs.l
          /\ osqp_u' = vecs.u

\* solve_mpc_: prob.update(q, Ax, l, u); res = prob.solve(), the solver
\* answering with some status and some step x
solve_mpc_(status, x) ==
    /\ prob' = [setup |-> prob.setup, last |-> "solve",
                q |-> osqp_q', l |-> osqp_l', u |-> osqp_u', Ax |-> osqp_A_data']
    /\ res' = [status |-> status, x |-> x]

\* one pass of the loop body: relinearize, refresh the QP data, solve, apply
Iterate ==
    /\ pc = "loop"
    /\ LoopCondition
    /\ prob.setup = 1
    /\ u_prev' = cur_u
    /\ z_init' = cur_z
    /\ u_init' = cur_u
    /\ Linearize(cur_z, cur_u)
    /\ RefreshVectors
    /\ osqp_A_data' = update_constraint_matrix_data_(osqp_A_data,
                          osqp_A_data_A_inds, osqp_A_data_B_inds, A_lst', B_lst')
    /\ \E status \in SolverStatus, x \in SolverX :
          /\ solve_mpc_(status, x)
          /\ cur_z' = ApplyStep(z_init', StepZ(x), status)
          /\ cur_u' = ApplyStep(u_init', StepU(x), status)
    /\ iter' = iter + 1
    /\ UNCHANGED <<edmdVars, evalVars, ctrlConfig, osqp_A, osqp_A_data_A_inds, osqp_A_data_B_inds,
                   pc, z, eps, max_iter, body_pc>>

\* the loop body on a controller that was never constructed: line 101 raises
\* AttributeError (no _osqp_A_data), after q, l and u were rebuilt
IterateUnconstructed ==
    /\ pc = "loop"
    /\ LoopCondition
    /\ prob.setup = 0
    /\ u_prev' = cur_u
    /\ z_init' = cur_z
    /\ u_init' = cur_u
    /\ Linearize(cur_z, cur_u)
    /\ RefreshVectors
    /\ pc' = "raised"
    /\ UNCHANGED <<edmdVars, evalVars, ctrlConfig, osqp_A, osqp_A_data, osqp_A_data_A_inds,
                   osqp_A_data_B_inds, prob, res,
                   z, eps, max_iter, iter, cur_z, cur_u, body_pc>>

\* the loop condition fails: solve_to_convergence returns
Return ==
    /\ pc = "loop"
    /\ body_pc = "top"
    /\ ~LoopCondition
    /\ pc' = "returned"
    /\ UNCHANGED <<edmdVars, evalVars, ctrlConfig, ctrlQp, ctrlLocals,
                   z, eps, max_iter, iter, cur_z, cur_u, u_prev, body_pc>>

Next ==
    \/ \E g \in SeedVals : construct_controller(g)
    \/ \E a \in StateSeeds, g \in SeedVals, e \in EpsVals, mi \in 0..MaxIter :
          solve_to_convergence(a, g, e, mi)
    \/ Iterate
    \/ IterateUnconstructed
    \/ Return

Spec == Init /\ [][Next]_vars

\* a step of a call that was entered: a pass of the loop body or the return
LoopAdvance == pc = "loop" /\ (iter' = iter + 1 \/ pc' # "loop")

\* Weak fairness of the loop's steps: solve_to_convergence is synchronous
\* code, so a call that was entered keeps running.  A loop step is enabled
\* exactly when pc = "loop" (the loop condition either holds or fails), so
\* weak fairness of the loop steps is written out with that enabling
\* condition.
FairSpec == Spec /\ ([]<>(pc # "loop") \/ []<><<LoopAdvance>>_vars)

-----------------------------------------------------------------------------
(* Claims about solve_to_convergence *)

\* the change of the control trajectory made by the last iteration is <= eps
Converged == ~ChangeAbove(u_prev, cur_u, eps)

\* C1: a call of solve_to_convergence with max_iter >= 1 terminates; it runs
\* at least one and at most max_iter iterations; it runs a further iteration
\* only when the previous one changed the control trajectory by more than
\* eps, and it returns after the first iteration whose change is <= eps or
\* after exactly max_iter iterations.
C1_Terminates ==
    /\ [][ /\ (pc' = "loop" => iter' <= max_iter' \/ max_iter' = 0)
           /\ (pc = "loop" /\ iter' = iter + 1 =>
                  iter < max_iter /\ (iter >= 1 => ~Converged))
           /\ (pc = "loop" /\ pc' = "returned" /\ max_iter >= 1 =>
                  /\ 1 <= iter /\ iter <= max_iter
                  /\ (iter = max_iter \/ Converged)) ]_vars
    /\ (pc = "loop" ~> pc # "loop")

\* a call that returned early, after a second iteration that converged
C1_Witness ==
    pc = "returned" /\ iter = 2 /\ max_iter = 3 /\ Converged /\ u_prev # cur_u

\* C4: when the solver reports a status other than solved, the step is not
\* applied to the guess and the call stops with the status surfaced.
C4_BadStepNotApplied ==
    [][ (pc = "loop" /\ iter' = iter + 1 /\ res'.status # "solved") =>
            (cur_z' = cur_z /\ cur_u' = cur_u) ]_vars

-----------------------------------------------------------------------------
(* construct_constraint_vecs_ on arbitrary arguments *)

MaxN == 2
OutputMaps == { <<<<1, 0>>>>,
                <<<<1, 0>>, <<0, 1>>>>,
                <<<<1, 1>>, <<0, 1>>>>,
                <<<<0, 1, 0>>, <<2, 0, 0>>>> }
InputCounts == {1, 2}
VecSeeds == {0 - 1, 0, 2}
InputSeeds == {0 - 1, 2}

ResidualOf(rs) == [t \in 1..N |-> [i \in 1..nx |-> rs * (100 + 10 * t + i)]]

VecInit ==
    /\ N \in 1..MaxN
    /\ \E Cm \in OutputMaps, nuv \in InputCounts : ControllerArgs(Cm, nuv)
    /\ terminal_constraint \in BOOLEAN
    /\ NotConstructed
    /\ NotCalled
    /\ NoEdmd
    /\ NoBilinearMpc

\* self.construct_constraint_vecs_(z, None, z_init, u_init, r_lst)
ConstraintVecs(a, g, h, rs) ==
    /\ z' = StateOf(a)
    /\ z_init' = GuessZ(g)
    /\ u_init' = GuessU(h)
    /\ r_lst' = ResidualOf(rs)
    /\ \E vecs \in {construct_constraint_vecs_(z', z_init', u_init', r_lst')} :
          /\ osqp_l' = vecs.l
          /\ osqp_u' = vecs.u
    /\ UNCHANGED <<edmdVars, evalVars, ctrlConfig, osqp_q, osqp_A, osqp_A_data, osqp_A_data_A_inds,
                   osqp_A_data_B_inds, prob, res,
                   pc, body_pc, eps, max_iter, iter, cur_z, cur_u, u_prev, A_lst, B_lst>>

VecNext ==
    \E a \in VecSeeds, g \in VecSeeds, h \in InputSeeds, rs \in InputSeeds :
        ConstraintVecs(a, g, h, rs)

VecSpec == VecInit /\ [][VecNext]_vars

\* offsets (0-based) of the blocks of _osqp_l and _osqp_u
OffU == (N + 1) * nx
OffX == (N + 1) * nx + N * nu

\* C8 (as stated): the stage-0 block of _osqp_l and of _osqp_u is
\* z - z_init[0].
C8_Stage0IsDz0 ==
    osqp_l # <<>> =>
        \A i \in 1..nx : /\ osqp_l[i] = z[i] - z_init[1][i]
                          /\ osqp_u[i] = z[i] - z_init[1][i]

\* C8 (amended): the stage-0 block of _osqp_l and of _osqp_u is the negated
\* offset z_init[0] - z, and the stage-0 rows of the constraint matrix are
\* -I on the stage-0 state columns and zero elsewhere, so the constraint
\* pins the stage-0 correction to z - z_init[0].
C8_Stage0IsNegDz0 ==
    osqp_l # <<>> =>
        /\ \A i \in 1..nx : /\ osqp_l[i] = z_init[1][i] - z[i]
                             /\ osqp_u[i] = z_init[1][i] - z[i]
        /\ \A i \in 1..nx, c \in 1..nCols :
              construct_constraint_matrix_(A_lst, B_lst)[i][c]
                  = (IF c = i THEN 0 - 1 ELSE 0)

C8_Witness == osqp_l # <<>> /\ z # z_init[1] /\ z # Zeros(nx)

\* C9: every input bound is umin/umax - u_init[t] and every state bound is
\* xmin/xmax - C z_init[t]; under a terminal constraint the final-stage
\* state block of both vectors is xr - C z_init[N], and no other block
\* differs from the one built without it (the dynamics rows are -r_lst[t]
\* in both vectors).
C9_BoxBounds ==
    osqp_l # <<>> =>
        /\ Len(osqp_l) = nRows /\ Len(osqp_u) = nRows
        /\ \A t \in 1..N, i \in 1..nx :
              /\ osqp_l[t * nx + i] = 0 - r_lst[t][i]
              /\ osqp_u[t * nx + i] = 0 - r_lst[t][i]
        /\ \A t \in 1..N, k \in 1..nu :
              /\ osqp_l[OffU + (t - 1) * nu + k] = umin[k] - u_init[t][k]
              /\ osqp_u[OffU + (t - 1) * nu + k] = umax[k] - u_init[t][k]
        /\ \A t \in 1..(N + 1), i \in 1..ns :
              IF terminal_constraint /\ t = N + 1
              THEN /\ osqp_l[OffX + (t - 1) * ns + i] = xr[i] - Dot(C[i], z_init[t])
                   /\ osqp_u[OffX + (t - 1) * ns + i] = xr[i] - Dot(C[i], z_init[t])
              ELSE /\ osqp_l[OffX + (t - 1) * ns + i] = xmin[i] - Dot(C[i], z_init[t])
                   /\ osqp_u[OffX + (t - 1) * ns + i] = xmax[i] - Dot(C[i], z_init[t])

C9_Witness ==
    /\ osqp_l # <<>> /\ terminal_constraint /\ N = 2 /\ ns = 2 /\ nu = 2
    /\ u_init # GuessU(0) /\ z_init # GuessZ(0)

-----------------------------------------------------------------------------
(* The data array of the constraint matrix under successive linearizations *)

BlockSeeds == {0 - 1, 0, 2, 3}

\* linearization blocks whose entries name their stage, row and column
BlocksA(sa) == [t \in 1..N |-> [i \in 1..nx |-> [j \in 1..nx |->
                   sa * (100 * t + 10 * i + j)]]]
BlocksB(sb) == [t \in 1..N |-> [i \in 1..nx |-> [k \in 1..nu |->
                   sb * (1000 + 100 * t + 10 * i + k)]]]

DataInit ==
    /\ N \in 1..MaxN
    /\ \E Cm \in OutputMaps, nuv \in InputCounts : ControllerArgs(Cm, nuv)
    /\ terminal_constraint = FALSE
    /\ NotConstructed
    /\ NotCalled
    /\ NoEdmd
    /\ NoBilinearMpc

\* construct_controller on the fresh controller
DataConstruct == prob.setup = 0 /\ construct_controller(1)

\* self.update_constraint_matrix_data_(A_lst, B_lst) with the blocks of one
\* more linearization
UpdateData(sa, sb) ==
    /\ prob.setup = 1
    /\ A_lst' = BlocksA(sa)
    /\ B_lst' = BlocksB(sb)
    /\ <<A_lst', B_lst'>> # <<A_lst, B_lst>>
    /\ osqp_A_data' = update_constraint_matrix_data_(osqp_A_data,
                          osqp_A_data_A_inds, osqp_A_data_B_inds, A_lst', B_lst')
    /\ UNCHANGED <<edmdVars, evalVars, ctrlConfig, osqp_q, osqp_l, osqp_u, osqp_A,
                   osqp_A_data_A_inds, osqp_A_data_B_inds, prob, res,
                   ctrlLoop, z_init, u_init, r_lst>>

DataNext ==
    \/ DataConstruct
    \/ \E sa \in BlockSeeds, sb \in BlockSeeds : UpdateData(sa, sb)

DataSpec == DataInit /\ [][DataNext]_vars

\* the blocks the data array currently stands for: those of
\* construct_controller until the first update
CurrentA == IF A_lst = <<>> THEN [t \in 1..N |-> OnesMat(nx, nx)] ELSE A_lst
CurrentB == IF B_lst = <<>> THEN [t \in 1..N |-> OnesMat(nx, nu)] ELSE B_lst

\* position p (a <<row, column>> pair, 1-based) lies in an A block / a B block
InABlock(p) ==
    /\ p[2] <= N * nx
    /\ p[1] > nx /\ p[1] <= (N + 1) * nx
    /\ (p[1] - nx - 1) \div nx = (p[2] - 1) \div nx
InBBlock(p) ==
    /\ p[2] > (N + 1) * nx
    /\ p[1] > nx /\ p[1] <= (N + 1) * nx
    /\ (p[1] - nx - 1) \div nx = (p[2] - (N + 1) * nx - 1) \div nu

\* the 0-based data indices the positions of pos that satisfy In*Block take
BlockIndices(pos, isA) ==
    {k - 1 : k \in {k2 \in 1..Len(pos) :
                       IF isA THEN InABlock(pos[k2]) ELSE InBBlock(pos[k2])}}

SeqRange(sq) == {sq[k] : k \in 1..Len(sq)}

\* C3: after construct_controller and any number of updates, the flat data
\* array equals the CSC data array of the constraint matrix rebuilt from the
\* current blocks on the sparsity pattern fixed at construction; the A and B
\* index maps are exactly the positions of the A and B block entries.
C3_IncrementalUpdate ==
    prob.setup = 1 =>
        /\ osqp_A_data =
              CscData(osqp_A, construct_constraint_matrix_(CurrentA, CurrentB))
        /\ SeqRange(osqp_A_data_A_inds) = BlockIndices(CscPositions(osqp_A), TRUE)
        /\ SeqRange(osqp_A_data_B_inds) = BlockIndices(CscPositions(osqp_A), FALSE)
        /\ Len(osqp_A_data_A_inds) = N * nx * nx
        /\ Len(osqp_A_data_B_inds) = N * nx * nu

\* an update with blocks holding zeros and distinct values, on an output map
\* with an empty column and a horizon of two stages
C3_Witness ==
    /\ prob.setup = 1 /\ N = 2 /\ nx = 3 /\ nu = 2
    /\ A_lst = BlocksA(2) /\ B_lst = BlocksB(0)

\* ---------------------------------------------------------------------
\* BilinearEdmd (learning/bilinear_edmd.py): fit and reduce_mdl.
\* Index sets keep numpy's 0-based values; a 0 x k array is <<>>.

MaxFits == 2

NCols(M) == IF M = <<>> THEN 0 ELSE Len(M[1])

\* np.unique of a set of indices: the ascending array
RECURSIVE SortedSeq(_)
SortedSeq(S) ==
    IF S = {} THEN <<>>
    ELSE LET lo == CHOOSE i \in S : \A j \in S : i <= j
         IN  <<lo>> \o SortedSeq(S \ {lo})

\* M[idx, :] and M[:, idx]
TakeRows(M, idx) == [k \in 1..Len(idx) |-> M[idx[k] + 1]]
TakeCols(M, idx) == [i \in 1..Len(M) |-> [k \in 1..Len(idx) |-> M[i][idx[k] + 1]]]

\* numpy raises IndexError on an index past the end of an axis
Indexable(M, rows) == \A i \in rows : i < Len(M)
ColIndexable(M, cols) == \A j \in cols : j < NCols(M)

\* np.unique(np.nonzero(M)[1])
NonzeroCols(M) ==
    {j \in 0..(NCols(M) - 1) : \E i \in 1..Len(M) : M[i][j + 1] # 0}

\* np.unique(np.nonzero(M[rows, :])[1])
NonzeroColsIn(M, rows) ==
    {j \in 0..(NCols(M) - 1) : \E i \in rows : M[i + 1][j + 1] # 0}

\* the value standing for an IndexError raised while in_use is computed
IndexError == {0 - 1}

\* for ii in range(self.m):
\*     in_use = np.unique(np.concatenate((in_use, np.nonzero(self.B[ii][in_use,:])[1])))
RECURSIVE UnionB(_, _)
UnionB(used, ii) ==
    IF ii > m \/ used = IndexError THEN used
    ELSE IF ~Indexable(B[ii], used) THEN IndexError
    ELSE UnionB(used \cup NonzeroColsIn(B[ii], used), ii + 1)

\* while n_obs_used < in_use.size:
\*     n_obs_used = in_use.size
\*     in_use = np.unique(np.nonzero(self.A[in_use,:])[1])
\*     for ii in range(self.m): ...
RECURSIVE InUseLoop(_, _)
InUseLoop(used, n_obs_used) ==
    IF used = IndexError \/ ~(n_obs_used < Cardinality(used)) THEN used
    ELSE IF ~Indexable(A, used) THEN IndexError
    ELSE InUseLoop(UnionB(NonzeroColsIn(A, used), 1), Cardinality(used))

\* in_use when the loop of reduce_mdl is left
in_use == InUseLoop(NonzeroCols(edmd_C), 0)

\* self.A = self.A[in_use,:]; self.A = self.A[:, in_use]
ReduceA(M, idx) ==
    IF ~Indexable(M, SeqRange(idx)) THEN [M |-> M, ok |-> FALSE]
    ELSE IF ~ColIndexable(TakeRows(M, idx), SeqRange(idx))
         THEN [M |-> TakeRows(M, idx), ok |-> FALSE]
    ELSE [M |-> TakeCols(TakeRows(M, idx), idx), ok |-> TRUE]

\* for ii in range(self.m): self.B[ii] = self.B[ii][in_use, :]; ... [:, in_use]
\* (what was assigned before an IndexError stays assigned)
RECURSIVE ReduceB(_, _, _)
ReduceB(Bl, idx, ii) ==
    IF ii > m THEN [B |-> Bl, ok |-> TRUE]
    ELSE IF ~ReduceA(Bl[ii], idx).ok
         THEN [B |-> [Bl EXCEPT ![ii] = ReduceA(Bl[ii], idx).M], ok |-> FALSE]
    ELSE ReduceB([Bl EXCEPT ![ii] = ReduceA(Bl[ii], idx).M], idx, ii + 1)

\* self.C = self.C[:, in_use]
ReduceC(M, idx) ==
    IF ColIndexable(M, SeqRange(idx)) THEN [M |-> TakeCols(M, idx), ok |-> TRUE]
    ELSE [M |-> M, ok |-> FALSE]

\* int(self.n / 2) and int(first_obs_const)
half == n \div 2
int(b) == IF b THEN 1 ELSE 0

\* M[:, lo:hi]
Slice(M, lo, hi) == [i \in 1..Len(M) |-> SubSeq(M[i], lo + 1, hi)]

\* np.concatenate((np.zeros((n/2, n/2 + c)), np.eye(n/2),
\*                 np.zeros((n/2, n_lift - n - c))), axis=1)
kin_dyn(first_obs_const) ==
    [i \in 1..half |-> Zeros(half + int(first_obs_const)) \o Eye(half)[i]
                       \o Zeros(n_lift - n - int(first_obs_const))]

\* the value fit assigns to self.A
FitA(coefs, override_kinematics, first_obs_const) ==
    IF override_kinematics
    THEN (IF first_obs_const THEN ZerosMat(1, n_lift) ELSE <<>>)
         \o kin_dyn(first_obs_const) \o Slice(coefs, 0, n_lift)
    ELSE Slice(coefs, 0, n_lift)

\* the matrix fit appends to self.B for channel ii (0-based)
FitB(coefs, override_kinematics, first_obs_const, ii) ==
    IF override_kinematics
    THEN ZerosMat(half + int(first_obs_const), n_lift)
         \o Slice(coefs, n_lift * (ii + 1), n_lift * (ii + 2))
    ELSE Slice(coefs, n_lift * (ii + 1), n_lift * (ii + 2))

\* the row count of y, and so of the regression coefficients: y is cut to
\* y[:, n/2 + c:] under override_kinematics
CoefRows(override_kinematics, first_obs_const) ==
    IF override_kinematics THEN n_lift - (half + int(first_obs_const)) ELSE n_lift

\* regression results: all zero (p = <<0, 0>>) or a single nonzero entry
Positions(rows) == {<<0, 0>>} \cup ((1..rows) \X (1..((m + 1) * n_lift)))
Coefs(rows, p) ==
    [i \in 1..rows |-> [j \in 1..((m + 1) * n_lift) |-> IF <<i, j>> = p THEN 1 ELSE 0]]

\* BilinearEdmd.fit(X, y, cv, override_kinematics, first_obs_const), coefs
\* being what the optimizer (and the standardizer) return for X, y
fit(coefs, use_cv, override_kinematics, first_obs_const) ==
    /\ n_lift > 0
    /\ Len(B) + m <= MaxFits * m
    /\ IF use_cv /\ cv = "None"
       THEN /\ edmd_raised' = "AssertionError"
            /\ UNCHANGED <<A, B>>
       ELSE /\ A' = FitA(coefs, override_kinematics, first_obs_const)
            /\ B' = B \o [ii \in 1..m |->
                            FitB(coefs, override_kinematics, first_obs_const, ii - 1)]
            /\ edmd_raised' = "none"
    /\ UNCHANGED <<ctrlVars, evalVars, liftVars, edmdConfig, edmd_C, basis_reduced, n_lift_reduced,
                   obs_in_use>>

\* BilinearEdmd.reduce_mdl()
reduce_mdl ==
    /\ n_lift > 0
    /\ IF B = <<>>
       THEN \* self.A is None until the first fit
            /\ edmd_raised' = "TypeError"
            /\ UNCHANGED <<A, B, edmd_C, basis_reduced, n_lift_reduced, obs_in_use>>
       ELSE \E used \in {in_use} :
            IF used = IndexError
            THEN /\ edmd_raised' = "IndexError"
                 /\ UNCHANGED <<A, B, edmd_C, basis_reduced, n_lift_reduced, obs_in_use>>
            ELSE \E idx \in {SortedSeq(used)} :
                 \E ra \in {ReduceA(A, idx)}, rb \in {ReduceB(B, idx, 1)},
                    rc \in {ReduceC(edmd_C, idx)} :
                    /\ A' = ra.M
                    /\ B' = IF ra.ok THEN rb.B ELSE B
                    /\ edmd_C' = IF ra.ok /\ rb.ok THEN rc.M ELSE edmd_C
                    /\ IF ra.ok /\ rb.ok /\ rc.ok
                       THEN /\ basis_reduced' = idx
                            /\ n_lift_reduced' = Len(idx)
                            /\ obs_in_use' = idx
                            /\ edmd_raised' = "none"
                       ELSE /\ edmd_raised' = "IndexError"
                            /\ UNCHANGED <<basis_reduced, n_lift_reduced, obs_in_use>>
    /\ UNCHANGED <<ctrlVars, evalVars, liftVars, edmdConfig>>

\* the output maps C of the instances: [0 I 0] behind a bias coordinate,
\* [I 0], and one that reads a single coordinate
EdmdOutputMaps ==
    { <<<<0, 1, 0>>, <<0, 0, 1>>>>, <<<<1, 0, 0>>, <<0, 1, 0>>>>,
      <<<<1, 0, 0>>, <<0, 0, 0>>>> }

EdmdInit ==
    /\ N = LoopN
    /\ ControllerArgs(<<<<1, 0>>>>, 1)
    /\ terminal_constraint = FALSE
    /\ NotConstructed
    /\ NotCalled
    /\ n = 2 /\ m \in InputCounts /\ n_lift = 3
    /\ cv \in {"None", "set"} /\ standardizer = "None"
    /\ edmd_C \in EdmdOutputMaps
    /\ A = <<>> /\ B = <<>>
    /\ basis_reduced = <<>> /\ n_lift_reduced = 0 - 1 /\ obs_in_use = <<>>
    /\ edmd_raised = "none"
    /\ n_traj = 1 /\ lift_x = <<>> /\ lift_u = <<>> /\ z_bilinear = <<>>
    /\ process_steps = <<>>
    /\ NoBilinearMpc

EdmdNext ==
    \/ \E use_cv \in BOOLEAN, ov \in BOOLEAN, c \in BOOLEAN :
          \E p \in Positions(CoefRows(ov, c)) :
             fit(Coefs(CoefRows(ov, c), p), use_cv, ov, c)
    \/ reduce_mdl

EdmdSpec == EdmdInit /\ [][EdmdNext]_vars

\* the model fit leaves behind: m control matrices, all of them and A square
\* of dimension n_lift, C with n_lift columns
IsSquare(M, d) == Len(M) = d /\ \A i \in 1..Len(M) : Len(M[i]) = d
WellFormed ==
    /\ Len(B) = m
    /\ IsSquare(A, n_lift)
    /\ \A k \in 1..m : IsSquare(B[k], n_lift)
    /\ NCols(edmd_C) = n_lift

\* column j is nonzero in row i of A or of some B_k
Couples(i) ==
    {j \in 0..(n_lift - 1) : A[i + 1][j + 1] # 0
                             \/ \E k \in 1..m : B[k][i + 1][j + 1] # 0}

\* the least set that holds S and, with each i, every column coupled to it
RECURSIVE Closure(_)
Closure(S) ==
    LET T == S \cup UNION {Couples(i) : i \in S}
    IN  IF T = S THEN S ELSE Closure(T)

\* C2: a reduce_mdl that returns, called on a model as fit leaves it, retains
\* exactly the reachability closure of the nonzero-column support of C under
\* the couplings of A and of every B_k.
C2_ReduceKeepsClosure ==
    [][ (WellFormed /\ reduce_mdl /\ edmd_raised' = "none")
        => obs_in_use' = SortedSeq(Closure(NonzeroCols(edmd_C))) ]_vars

\* rows c..c+n/2-1 of A are [0 I 0], row 0 of A is zero when c = 1, and rows
\* 0..c+n/2-1 of each of the m control matrices are zero
KinematicRows(c) ==
    /\ \A j \in 0..(half - 1) : \A col \in 0..(n_lift - 1) :
          A[c + j + 1][col + 1] = (IF col = c + half + j THEN 1 ELSE 0)
    /\ c = 1 => A[1] = Zeros(n_lift)
    /\ \A k \in 1..m : \A r \in 1..(c + half) : B[k][r] = Zeros(n_lift)

\* C6: after a fit with override_kinematics the kinematic rows of A are
\* [0 I 0] (below a zero row when c = 1) and the kinematic rows of every B_i
\* are zero.
C6_KinematicRows ==
    [][ \A c \in BOOLEAN, use_cv \in BOOLEAN :
          \A p \in Positions(CoefRows(TRUE, c)) :
            (fit(Coefs(CoefRows(TRUE, c), p), use_cv, TRUE, c) /\ edmd_raised' = "none")
            => KinematicRows(int(c))' ]_vars

\* C10: once fitted, whatever fit and reduce_mdl calls were made, the model
\* holds exactly m control matrices, A and every B_i are square of one
\* dimension, and C has that many columns.
C10_ModelShape ==
    B # <<>> =>
        /\ Len(B) = m
        /\ IsSquare(A, Len(A))
        /\ \A k \in 1..Len(B) : IsSquare(B[k], Len(A))
        /\ NCols(edmd_C) = Len(A)

\* ---------------------------------------------------------------------
\* BilinearEdmd.lift (learning/bilinear_edmd.py:72-77).  An array of shape
\* (n_traj, T, k) is a sequence of trajectories, each a sequence of T
\* samples, each a sequence of k numbers.

TrajLen == 2

\* the supplied basis: n_lift monomials of a state sample
basis(xv) ==
    [j \in 1..n_lift |->
        IF j = 1 THEN 1
        ELSE xv[((j - 2) % n) + 1] * (IF j - 2 >= n THEN xv[1] ELSE 1)]

\* Edmd.lift(x, u): the basis at every sample of one state trace
Edmd_lift(xs, us) == [t \in 1..Len(xs) |-> basis(xs[t])]

\* z = np.array([super().lift(x[ii, :-1, :], u[ii, :, :]) for ii in range(self.n_traj)])
LiftedTraces(x, u) ==
    [ii \in 1..n_traj |-> Edmd_lift(SubSeq(x[ii], 1, Len(x[ii]) - 1), u[ii])]

\* variant of ChannelProduct in which every block takes channel 0
ChannelProductFirst(zl, u, ii) ==
    [tr \in 1..Len(zl) |-> [t \in 1..Len(zl[tr]) |->
        [j \in 1..Len(zl[tr][t]) |-> zl[tr][t][j] * u[tr][t][1]]]]

\* np.multiply(z, np.tile(u[:,:,ii:ii+1], (1,1,z.shape[2]))), ii 0-based
ChannelProduct(zl, u, ii) ==
    [tr \in 1..Len(zl) |-> [t \in 1..Len(zl[tr]) |->
        [j \in 1..Len(zl[tr][t]) |-> zl[tr][t][j] * u[tr][t][ii + 1]]]]

\* np.concatenate((a, b), axis=2)
Concat2(a, b) == [tr \in 1..Len(a) |-> [t \in 1..Len(a[tr]) |-> a[tr][t] \o b[tr][t]]]

\* for ii in range(self.m): z_bilinear = np.concatenate((z_bilinear, ...), axis=2)
RECURSIVE LiftLoop(_, _, _, _)
LiftLoop(zb, zl, u, ii) ==
    IF ii >= m THEN zb
    ELSE LiftLoop(Concat2(zb, ChannelProduct(zl, u, ii)), zl, u, ii + 1)

\* BilinearEdmd.lift(x, u)
lift(x, u) == LiftLoop(LiftedTraces(x, u), LiftedTraces(x, u), u, 0)

\* state traces of TrajLen + 1 samples and control traces of TrajLen samples
TraceSeeds == {0 - 2, 0, 1, 3}
StateTraces(a) ==
    [ii \in 1..n_traj |-> [t \in 1..(TrajLen + 1) |-> [k \in 1..n |-> a * ii + t - k]]]
ControlTraces(b) ==
    [ii \in 1..n_traj |-> [t \in 1..TrajLen |-> [k \in 1..m |-> b * k + ii - t]]]

LiftInit ==
    /\ N = LoopN
    /\ ControllerArgs(<<<<1, 0>>>>, 1)
    /\ terminal_constraint = FALSE
    /\ NotConstructed
    /\ NotCalled
    /\ n \in {1, 2} /\ m \in InputCounts /\ n_lift \in {2, 3}
    /\ cv = "None" /\ standardizer = "None"
    /\ edmd_C = <<>> /\ A = <<>> /\ B = <<>>
    /\ basis_reduced = <<>> /\ n_lift_reduced = 0 - 1 /\ obs_in_use = <<>>
    /\ edmd_raised = "none"
    /\ n_traj \in {1, 2} /\ lift_x = <<>> /\ lift_u = <<>> /\ z_bilinear = <<>>
    /\ process_steps = <<>>
    /\ NoBilinearMpc

\* z_bilinear = self.lift(x, u)
CallLift(a, b) ==
    /\ lift_x' = StateTraces(a)
    /\ lift_u' = ControlTraces(b)
    /\ z_bilinear' = lift(lift_x', lift_u')
    /\ UNCHANGED <<ctrlVars, evalVars, edmdConfig, edmdModel, n_traj, process_steps>>

LiftNext == \E a \in TraceSeeds, b \in TraceSeeds : CallLift(a, b)

LiftSpec == LiftInit /\ [][LiftNext]_vars

\* C7: the last dimension of lift(x, u) is (m+1)*n_lift; its first n_lift
\* entries are the plain lift of the state sample; block k (k = 1..m) is the
\* plain lift times control channel k-1 at the same trajectory and time.
C7_LiftBlocks ==
    z_bilinear # <<>> =>
        /\ Len(z_bilinear) = n_traj
        /\ \A tr \in 1..n_traj :
            /\ Len(z_bilinear[tr]) = TrajLen
            /\ \A t \in 1..TrajLen :
                /\ Len(z_bilinear[tr][t]) = (m + 1) * n_lift
                /\ \A j \in 1..n_lift :
                    /\ z_bilinear[tr][t][j] = basis(lift_x[tr][t])[j]
                    /\ \A k \in 1..m :
                        z_bilinear[tr][t][k * n_lift + j]
                            = basis(lift_x[tr][t])[j] * lift_u[tr][t][k]

C7_Witness ==
    /\ z_bilinear # <<>>
    /\ m = 2 /\ n_traj = 2 /\ n_lift = 3
    /\ z_bilinear[2][2][3 + 2] # z_bilinear[2][2][6 + 2]
    /\ z_bilinear[2][2][2] # z_bilinear[2][2][3 + 2]

\* ---------------------------------------------------------------------
\* BilinearMpcController.eval (controllers/bilinear_mpc_controller.py:73-102),
\* one action per step of the call.

\* self.n_lift and self.m of the controller
mpc_n_lift == 2
mpc_m == 1

\* bilinear_dynamics, the supplied lifted model: the basis phi_fun, the drift
\* F, eval_dot = F z + (G z) u, the actuation matrix act(z, t), the output Cx
phi_fun(x) == <<x[1], x[1] * x[1]>>
F_bl == <<<<1, 1>>, <<0, 1>>>>
G_bl == <<<<0, 0>>, <<0, 1>>>>
eval_dot(zv, u) == VAdd(MatVec(F_bl, zv), VScale(u[1], MatVec(G_bl, zv)))
act(zv) == <<<<0>>, <<IF zv[1] > 0 THEN 1 ELSE IF zv[1] < 0 THEN 0 - 1 ELSE 0>>>>
Cx_bl == <<<<1, 0>>>>

\* C@F@act and C@(zd_ddot - F@F@zd + nu) of line 99
CFact(zv) ==
    [r \in 1..Len(Cx_bl) |-> [c \in 1..mpc_m |->
        Dot(Cx_bl[r], MatVec(F_bl, Col(act(zv), c)))]]
RecoverRhs(zdv, zddv, nuv) ==
    MatVec(Cx_bl, VAdd(VSub(zddv, MatVec(F_bl, MatVec(F_bl, zdv))), nuv))

\* np.linalg.solve on the 1 x 1 system of this controller: LinAlgError when
\* the matrix is singular
Singular(M) == M[1][1] = 0
linalg_solve(M, b) == <<b[1] \div M[1][1]>>

\* cvxpy's status after solve, and the first column of the auxiliary input
\* when the solver returns one
MpcStatus == {"optimal", "optimal_inaccurate", "infeasible", "unbounded"}
NuVals == {<<0, 0>>, <<1, 0>>, <<3, 1>>}
EvalStates == {<<0 - 1>>, <<0>>, <<2>>}
SetPoints == {<<0>>, <<1>>}

\* variant of AssertOptimal that accepts every status
AssertNothing(status) == TRUE

\* assert self.mpc_prob.status == 'optimal'
AssertOptimal(status) == status = "optimal"

\* the values lines 83-87 give the five parameters
RefreshedParams(x, up) ==
    <<VSub(phi_fun(x), phi_fun(set_pt))
          \o VSub(eval_dot(phi_fun(x), up), Zeros(mpc_n_lift)),
      phi_fun(set_pt) \o Zeros(mpc_n_lift),
      phi_fun(set_pt), Zeros(mpc_n_lift), Zeros(mpc_n_lift)>>

EvalInit ==
    /\ N = LoopN
    /\ ControllerArgs(<<<<1, 0>>>>, 1)
    /\ terminal_constraint = FALSE
    /\ NotConstructed
    /\ NotCalled
    /\ NoEdmd
    /\ set_pt \in SetPoints
    /\ mpc_prob = "None" /\ mpc_status = "None" /\ mpc_nu = <<>>
    /\ eta_z_init = <<>> /\ eta_z_d = <<>> /\ zd = <<>> /\ zd_dot = <<>> /\ zd_ddot = <<>>
    /\ mpc_u_prev = Zeros(mpc_m)
    /\ eval_pc = "idle" /\ eval_x = <<>> /\ eval_z = <<>> /\ eval_u = <<>>
    /\ eval_ret = <<>>

InCall == eval_pc \in {"refreshed", "solved", "asserted", "recovered", "stored"}

\* BilinearMpcController.construct_controller: a new problem and new
\* parameters, none with a value
mpc_construct_controller ==
    /\ ~InCall
    /\ mpc_prob' = "constructed"
    /\ mpc_status' = "None"
    /\ mpc_nu' = <<>>
    /\ eta_z_init' = <<>> /\ eta_z_d' = <<>>
    /\ zd' = <<>> /\ zd_dot' = <<>> /\ zd_ddot' = <<>>
    /\ UNCHANGED <<ctrlVars, edmdVars, set_pt, mpc_u_prev, evalFrame>>

\* lines 75-87: lift x and the set point, refresh the five parameters
\* (AttributeError when construct_controller was never called)
eval_refresh(x) ==
    /\ ~InCall
    /\ eval_x' = x
    /\ eval_z' = phi_fun(x)
    /\ eval_u' = <<>>
    /\ eval_ret' = <<>>
    /\ IF mpc_prob = "None"
       THEN /\ eval_pc' = "raised"
            /\ UNCHANGED mpcParams
       ELSE /\ eval_pc' = "refreshed"
            /\ \E rp \in {RefreshedParams(x, mpc_u_prev)} :
                  /\ eta_z_init' = rp[1]
                  /\ eta_z_d' = rp[2]
                  /\ zd' = rp[3]
                  /\ zd_dot' = rp[4]
                  /\ zd_ddot' = rp[5]
    /\ UNCHANGED <<ctrlVars, edmdVars, set_pt, mpc_prob, mpc_status, mpc_nu, mpc_u_prev>>

\* line 90: self.mpc_prob.solve(solver=cvx.OSQP, warm_start=True)
eval_solve(status, nuv) ==
    /\ eval_pc = "refreshed"
    /\ mpc_status' = status
    /\ mpc_nu' = IF status \in {"optimal", "optimal_inaccurate"} THEN nuv ELSE <<>>
    /\ eval_pc' = "solved"
    /\ UNCHANGED <<ctrlVars, edmdVars, set_pt, mpc_prob, mpcParams, mpc_u_prev,
                   eval_x, eval_z, eval_u, eval_ret>>

\* line 91: the assertion on the status
eval_assert ==
    /\ eval_pc = "solved"
    /\ eval_pc' = IF AssertOptimal(mpc_status) THEN "asserted" ELSE "raised"
    /\ UNCHANGED <<ctrlVars, edmdVars, mpcVars, eval_x, eval_z, eval_u, eval_ret>>

\* lines 92-99: nu, act at the lifted current state, u = np.linalg.solve(...)
\* (TypeError when the problem's variable has no value, LinAlgError when
\* C@F@act is singular)
eval_recover ==
    /\ eval_pc = "asserted"
    /\ IF mpc_nu = <<>> \/ Singular(CFact(eval_z))
       THEN /\ eval_pc' = "raised"
            /\ UNCHANGED eval_u
       ELSE /\ eval_pc' = "recovered"
            /\ eval_u' = linalg_solve(CFact(eval_z),
                                      RecoverRhs(phi_fun(set_pt), Zeros(mpc_n_lift), mpc_nu))
    /\ UNCHANGED <<ctrlVars, edmdVars, mpcVars, eval_x, eval_z, eval_ret>>

\* line 100: self.u_prev = u
eval_store ==
    /\ eval_pc = "recovered"
    /\ mpc_u_prev' = eval_u
    /\ eval_pc' = "stored"
    /\ UNCHANGED <<ctrlVars, edmdVars, set_pt, mpc_prob, mpc_status, mpc_nu, mpcParams,
                   eval_x, eval_z, eval_u, eval_ret>>

\* line 102: return u
eval_return ==
    /\ eval_pc = "stored"
    /\ eval_ret' = eval_u
    /\ eval_pc' = "returned"
    /\ UNCHANGED <<ctrlVars, edmdVars, mpcVars, eval_x, eval_z, eval_u>>

EvalNext ==
    \/ mpc_construct_controller
    \/ \E x \in EvalStates : eval_refresh(x)
    \/ \E status \in MpcStatus, nuv \in NuVals : eval_solve(status, nuv)
    \/ eval_assert
    \/ eval_recover
    \/ eval_store
    \/ eval_return

EvalSpec == EvalInit /\ [][EvalNext]_vars

\* u solves (C F act(z)) u = C (zd_ddot - F F zd + nu) for the lifted current
\* state z and the solution nu of the auxiliary problem
RecoveredFrom(u, zv, nuv) ==
    MatVec(CFact(zv), u) = RecoverRhs(phi_fun(set_pt), Zeros(mpc_n_lift), nuv)

\* the call moves to step s
Enters(s) == eval_pc # s /\ eval_pc' = s

\* C5: in eval the problem is solved only with the parameters refreshed for
\* the current state; a status other than 'optimal' makes the call fail with
\* no value returned and u_prev as it was; u_prev is written only after the
\* assertion passed, with the u recovered from the actuation matrix at the
\* current state, and u is returned only after it was stored in u_prev.
C5_EvalOrder ==
    [][ /\ Enters("solved") =>
            /\ eval_pc = "refreshed"
            /\ mpcParams = RefreshedParams(eval_x, mpc_u_prev)
        /\ (eval_pc = "solved" /\ mpc_status # "optimal") =>
            /\ eval_pc' = "raised"
            /\ mpc_u_prev' = mpc_u_prev
            /\ eval_ret' = <<>>
        /\ Enters("asserted") => (eval_pc = "solved" /\ mpc_status = "optimal")
        /\ Enters("recovered") =>
            /\ eval_pc = "asserted"
            /\ RecoveredFrom(eval_u', phi_fun(eval_x), mpc_nu)
        /\ mpc_u_prev' # mpc_u_prev => eval_pc' = "stored"
        /\ Enters("stored") =>
            /\ eval_pc = "recovered"
            /\ mpc_status = "optimal"
            /\ mpc_u_prev' = eval_u
        /\ Enters("returned") =>
            /\ eval_pc = "stored"
            /\ eval_ret' = mpc_u_prev
            /\ RecoveredFrom(eval_ret', phi_fun(eval_x), mpc_nu)
        /\ eval_pc' = "raised" => (eval_ret' = <<>> /\ mpc_u_prev' = mpc_u_prev)
      ]_vars

\* a call failed on a status that is not 'optimal' after an earlier call
\* had stored a nonzero control
C5_Witness ==
    /\ eval_pc = "raised"
    /\ mpc_status \in {"infeasible", "optimal_inaccurate"}
    /\ mpc_u_prev # Zeros(mpc_m)
    /\ eval_ret = <<>>

\* ---------------------------------------------------------------------
\* BilinearEdmd.process (learning/bilinear_edmd.py:51-67).  process_steps
\* lists the numeric steps the last call went through before it returned or
\* raised; edmd_raised is the exception it raised.

\* raw trajectories with dx state coordinates and du control channels
RawX(a, dx) ==
    [ii \in 1..n_traj |-> [t \in 1..(TrajLen + 1) |-> [k \in 1..dx |-> a * ii + t - k]]]
RawU(b, du) ==
    [ii \in 1..n_traj |-> [t \in 1..TrajLen |-> [k \in 1..du |-> b * k + ii - t]]]

\* x.shape[2] and u.shape[2]
StateDim(x) == Len(x[1][1])
ControlDim(u) == Len(u[1][1])

\* BilinearEdmd.process(x, u, t)
process(x, u) ==
    /\ n_lift > 0
    /\ lift_x' = x
    /\ lift_u' = u
    /\ IF StateDim(x) # n
       THEN \* line 52: assert x.shape[2] == self.n
            /\ edmd_raised' = "AssertionError"
            /\ process_steps' = <<>>
            /\ UNCHANGED <<z_bilinear, standardizer>>
       ELSE IF ControlDim(u) < m
       THEN \* lines 54-56: z and z_dot are computed, then self.lift raises at
            \* line 76 on the empty slice u[:,:,ii:ii+1]
            /\ edmd_raised' = "ValueError"
            /\ process_steps' = <<"lift", "differentiate", "lift">>
            /\ UNCHANGED <<z_bilinear, standardizer>>
       ELSE \* lines 54-67; channels of u past the m-th are never read
            /\ edmd_raised' = "none"
            /\ z_bilinear' = lift(x, u)
            /\ process_steps' =
                  <<"lift", "differentiate", "lift", "bilinear_lift", "reshape">>
                  \o (IF standardizer = "None" THEN <<>>
                      ELSE <<"standardizer_fit", "standardizer_transform">>)
            /\ standardizer' = IF standardizer = "None" THEN "None" ELSE "fitted"
    /\ UNCHANGED <<ctrlVars, evalVars, n, m, n_lift, cv, A, B, edmd_C,
                   basis_reduced, n_lift_reduced, obs_in_use, n_traj>>

ProcessInit ==
    /\ N = LoopN
    /\ ControllerArgs(<<<<1, 0>>>>, 1)
    /\ terminal_constraint = FALSE
    /\ NotConstructed
    /\ NotCalled
    /\ n \in {1, 2} /\ m \in InputCounts /\ n_lift \in {2, 3}
    /\ cv = "None" /\ standardizer \in {"None", "set"}
    /\ edmd_C = <<>> /\ A = <<>> /\ B = <<>>
    /\ basis_reduced = <<>> /\ n_lift_reduced = 0 - 1 /\ obs_in_use = <<>>
    /\ edmd_raised = "none"
    /\ n_traj \in {1, 2} /\ lift_x = <<>> /\ lift_u = <<>> /\ z_bilinear = <<>>
    /\ process_steps = <<>>
    /\ NoBilinearMpc

ProcessNext ==
    \E a \in {0, 1}, dx \in {n, n + 1}, du \in {m - 1, m, m + 1} :
        process(RawX(a, dx), RawU(1, du))

ProcessSpec == ProcessInit /\ [][ProcessNext]_vars

\* C11: a call of process whose x has a state dimension other than n, or
\* whose u has a control dimension other than m, raises before any lifting,
\* differentiation or standardizer fitting, and leaves the standardizer, A
\* and B as they were.
C11_ProcessFailsFast ==
    [][ (StateDim(lift_x') # n \/ ControlDim(lift_u') # m) =>
            /\ edmd_raised' # "none"
            /\ process_steps' = <<>>
            /\ standardizer' = standardizer
            /\ A' = A /\ B' = B ]_vars

-----------------------------------------------------------------------------
(* NonlinearMPCController: the loop body of solve_to_convergence statement *)
(* by statement, and the calls the solver handle receives                  *)

\* lines 87-96: the loop condition holds; copy the guess and relinearize
body_linearize ==
    /\ pc = "loop"
    /\ body_pc = "top"
    /\ LoopCondition
    /\ u_prev' = cur_u
    /\ z_init' = cur_z
    /\ u_init' = cur_u
    /\ Linearize(cur_z, cur_u)
    /\ body_pc' = "linearized"
    /\ UNCHANGED <<edmdVars, evalVars, ctrlConfig, ctrlQp,
                   pc, z, eps, max_iter, iter, cur_z, cur_u>>

\* lines 99-101: refresh q, l, u and the values of A; on a controller that
\* was never constructed line 101 raises AttributeError (no _osqp_A_data)
body_refresh ==
    /\ pc = "loop"
    /\ body_pc = "linearized"
    /\ osqp_q' = update_objective_(z_init, u_init)
    /\ \E vecs \in {construct_constraint_vecs_(z, z_init, u_init, r_lst)} :
          /\ osqp_l' = vecs.l
          /\ osqp_u' = vecs.u
    /\ IF osqp_A_data = <<>>
       THEN /\ pc' = "raised"
            /\ body_pc' = "top"
            /\ UNCHANGED osqp_A_data
       ELSE /\ osqp_A_data' = update_constraint_matrix_data_(osqp_A_data,
                                  osqp_A_data_A_inds, osqp_A_data_B_inds, A_lst, B_lst)
            /\ body_pc' = "refreshed"
            /\ UNCHANGED pc
    /\ UNCHANGED <<edmdVars, evalVars, ctrlConfig, ctrlLocals,
                   osqp_A, osqp_A_data_A_inds, osqp_A_data_B_inds, prob, res,
                   z, eps, max_iter, iter, cur_z, cur_u, u_prev>>

\* variant of the handle after update that leaves the values of A alone
UpdatedHandleNoAx ==
    [setup |-> prob.setup, last |-> "update",
     q |-> osqp_q, l |-> osqp_l, u |-> osqp_u, Ax |-> prob.Ax]

\* the handle after prob.update(q=_osqp_q, Ax=_osqp_A_data, l=_osqp_l, u=_osqp_u)
UpdatedHandle ==
    [setup |-> prob.setup, last |-> "update",
     q |-> osqp_q, l |-> osqp_l, u |-> osqp_u, Ax |-> osqp_A_data]

\* line 114 (in solve_mpc_, called at line 103)
body_update ==
    /\ pc = "loop"
    /\ body_pc = "refreshed"
    /\ prob' = UpdatedHandle
    /\ body_pc' = "updated"
    /\ UNCHANGED <<edmdVars, evalVars, ctrlConfig, ctrlLocals,
                   osqp_q, osqp_l, osqp_u, osqp_A, osqp_A_data,
                   osqp_A_data_A_inds, osqp_A_data_B_inds, res,
                   pc, z, eps, max_iter, iter, cur_z, cur_u, u_prev>>

\* line 115: res = prob.solve(), the solver answering with some status and
\* some step x
body_solve(status, x) ==
    /\ pc = "loop"
    /\ body_pc = "updated"
    /\ prob' = [prob EXCEPT !.last = "solve"]
    /\ res' = [status |-> status, x |-> x]
    /\ body_pc' = "solved"
    /\ UNCHANGED <<edmdVars, evalVars, ctrlConfig, ctrlLocals,
                   osqp_q, osqp_l, osqp_u, osqp_A, osqp_A_data,
                   osqp_A_data_A_inds, osqp_A_data_B_inds,
                   pc, z, eps, max_iter, iter, cur_z, cur_u, u_prev>>

\* lines 116-117 and 105-108: the step of the answer is added to the guess
body_apply ==
    /\ pc = "loop"
    /\ body_pc = "solved"
    /\ cur_z' = ApplyStep(z_init, StepZ(res.x), res.status)
    /\ cur_u' = ApplyStep(u_init, StepU(res.x), res.status)
    /\ iter' = iter + 1
    /\ body_pc' = "top"
    /\ UNCHANGED <<edmdVars, evalVars, ctrlConfig, ctrlQp, ctrlLocals,
                   pc, z, eps, max_iter, u_prev>>

BodyNext ==
    \/ \E g \in SeedVals : construct_controller(g)
    \/ \E a \in StateSeeds, g \in SeedVals, e \in EpsVals, mi \in 0..MaxIter :
          solve_to_convergence(a, g, e, mi)
    \/ body_linearize
    \/ body_refresh
    \/ body_update
    \/ \E status \in SolverStatus, x \in SolverX : body_solve(status, x)
    \/ body_apply
    \/ Return

BodySpec == Init /\ [][BodyNext]_vars

\* the handle receives call c in this step
Receives(c) == prob' # prob /\ prob'.last = c

\* the QP data are the ones of the pass in progress: built from the
\* linearization around the guess the pass started from
DataOfThisPass ==
    /\ z_init = cur_z /\ u_init = cur_u
    /\ A_lst = [t \in 1..N |-> get_linearization(cur_z[t], cur_z[t + 1], cur_u[t]).A]
    /\ B_lst = [t \in 1..N |-> get_linearization(cur_z[t], cur_z[t + 1], cur_u[t]).B]
    /\ r_lst = [t \in 1..N |-> get_linearization(cur_z[t], cur_z[t + 1], cur_u[t]).r]
    /\ osqp_q = update_objective_(cur_z, cur_u)
    /\ osqp_l = construct_constraint_vecs_(z, cur_z, cur_u, r_lst).l
    /\ osqp_u = construct_constraint_vecs_(z, cur_z, cur_u, r_lst).u
    /\ osqp_A_data = update_constraint_matrix_data_(osqp_A_data,
                         osqp_A_data_A_inds, osqp_A_data_B_inds, A_lst, B_lst)

\* C12: the solver handle receives setup once, in construct_controller, and
\* before any update or solve; a controller that was not constructed issues
\* no update and no solve; inside a pass of the loop the order is relinearize,
\* refresh of q, l, u and the values of A, update(q, Ax, l, u), solve, apply
\* the step, and every solve comes right after an update that carried the
\* data of the same pass.
C12_SolverCallOrder ==
    [][ /\ prob'.setup <= 1
        /\ Receives("setup") =>
              pc # "loop" /\ body_pc = "top" /\ prob'.setup = 1
        /\ prob.setup = 0 => prob'.last \notin {"update", "solve"}
        /\ Receives("update") =>
              /\ prob.setup = 1
              /\ prob.last \in {"setup", "solve"}
              /\ DataOfThisPass
              /\ prob'.q = osqp_q /\ prob'.l = osqp_l /\ prob'.u = osqp_u
              /\ prob'.Ax = osqp_A_data
        /\ Receives("solve") =>
              /\ prob.setup = 1
              /\ prob.last = "update"
              /\ DataOfThisPass
              /\ prob.q = osqp_q /\ prob.l = osqp_l /\ prob.u = osqp_u
              /\ prob.Ax = osqp_A_data
        /\ iter' = iter + 1 =>
              /\ prob.last = "solve"
              /\ body_pc = "solved"
              /\ cur_z' = TAdd(z_init, StepZ(res.x))
              /\ cur_u' = TAdd(u_init, StepU(res.x)) ]_vars

\* a second pass of the loop has had its update and its solve
C12_Witness ==
    /\ iter >= 1
    /\ body_pc = "solved"
    /\ prob.last = "solve"
    /\ prob.Ax = osqp_A_data

====
